---- MODULE Spec2Model ----
\* A model of dbModule (main.go): the query catalog, the schema initializer,
\* the row mappers and the entry orchestration, over an abstract SQL store.
EXTENDS Integers, Sequences, FiniteSets, TLC

VARIABLES
    store,        \* the database: the two tables
    file,         \* the catalog file on disk
    queries,      \* the Queries value the operations are called with
    op,           \* the operation that returned last
    arg,          \* its argument and the driver's behaviour during the call
    ret,          \* the sequence it returned (selects)
    err,          \* the error it returned
    scanned,      \* rows.Scan calls it made
    execLog,      \* statements it handed to the driver, in order
    openCursors,  \* row cursors opened by returned calls and not closed
    prev,         \* whether the call before the last one was an Initialize returning nil
    pc,           \* position of main ("lib" when the package is used directly)
    steplog,      \* main: the steps executed, with their outcome
    output        \* main: the lines printed

vars == <<store, file, queries, op, arg, ret, err, scanned, execLog,
          openCursors, prev, pc, steplog, output>>

----------------------------------------------------------------------------
\* Bounds

MaxRows == 2       \* rows a table may hold

----------------------------------------------------------------------------
\* Values

Nil == "nil"

Keys == {"DropUser", "DropRestaurants", "CreateUser", "CreateRestaurants",
         "InsertUser", "InsertRestaurant", "SelectUsers", "SelectRestaurants",
         "SelectJoin"}

\* The SQL text the configuration file config/queries.yaml holds for a key.
SQL(k) ==
    CASE k = "DropUser"          -> "DROP TABLE IF EXISTS user"
      [] k = "DropRestaurants"   -> "DROP TABLE IF EXISTS restaurants"
      [] k = "CreateUser"        -> "CREATE TABLE user"
      [] k = "CreateRestaurants" -> "CREATE TABLE restaurants"
      [] k = "InsertUser"        -> "INSERT INTO user"
      [] k = "InsertRestaurant"  -> "INSERT INTO restaurants"
      [] k = "SelectUsers"       -> "SELECT FROM user"
      [] k = "SelectRestaurants" -> "SELECT FROM restaurants"
      [] k = "SelectJoin"        -> "SELECT FROM user JOIN restaurants"

Malformed == "SELEKT"   \* text the driver cannot parse
NoKey == "<absent>"     \* the key does not occur in the file

\* type User
User(id, name, lastname, password, email, phone) ==
    [ID |-> id, Name |-> name, Lastname |-> lastname, Password |-> password,
     Email |-> email, Phone |-> phone]

\* type Restaurant
Restaurant(id, name, type, keys, price, userId) ==
    [ID |-> id, Name |-> name, Type |-> type, Keys |-> keys,
     AveragePrice |-> price, UserID |-> userId]

\* the sample values of main
SampleUser == User(0, "lorem", "lorem", "lorem", "lorem@example.com", "+88888888888")
SampleRestaurant == Restaurant(0, "ipsum", "ipsum", "ipsum", 2, 1)

\* the values the operations are called with
Users == {SampleUser, User(7, "ann", "lee", "pw", "ann@example.com", "+1")}
Restaurants == {SampleRestaurant, Restaurant(9, "dolor", "cafe", "k", 5, 2)}

\* type Queries, zero value
ZeroQueries == [k \in Keys |-> ""]

----------------------------------------------------------------------------
\* The store: what the SQL driver does with a statement

Table(exists, rows) == [exists |-> exists, rows |-> rows]
NoTable == Table(FALSE, <<>>)
EmptyTable == Table(TRUE, <<>>)

\* a row of table user: the store assigns id, the insert binds the rest in order
UserRow(id, a) ==
    [id |-> id, name |-> a[1], lastname |-> a[2], password |-> a[3],
     email |-> a[4], phone |-> a[5]]

\* a row of table restaurants
RestaurantRow(id, a) ==
    [id |-> id, name |-> a[1], type |-> a[2], keys |-> a[3],
     average_price |-> a[4], user_id |-> a[5]]

\* db.Exec(statement) without arguments: the DDL statements
ExecDDL(s, text) ==
    CASE text = SQL("DropUser") ->
            [store |-> [s EXCEPT !.user = NoTable], err |-> Nil]
      [] text = SQL("DropRestaurants") ->
            [store |-> [s EXCEPT !.restaurants = NoTable], err |-> Nil]
      [] text = SQL("CreateUser") ->
            IF s.user.exists THEN [store |-> s, err |-> "sql"]
            ELSE [store |-> [s EXCEPT !.user = EmptyTable], err |-> Nil]
      [] text = SQL("CreateRestaurants") ->
            IF s.restaurants.exists THEN [store |-> s, err |-> "sql"]
            ELSE [store |-> [s EXCEPT !.restaurants = EmptyTable], err |-> Nil]
      [] OTHER -> [store |-> s, err |-> "sql"]

\* db.Prepare(query): the text must parse and its tables must exist
Prepare(s, text) ==
    CASE text = SQL("InsertUser") -> IF s.user.exists THEN Nil ELSE "sql"
      [] text = SQL("InsertRestaurant") -> IF s.restaurants.exists THEN Nil ELSE "sql"
      [] OTHER -> "sql"

\* statement.Exec(args...) of a prepared insert: one row, id assigned by the store
ExecInsert(s, text, a) ==
    CASE text = SQL("InsertUser") ->
            [store |-> [s EXCEPT !.user.rows =
                            Append(@, UserRow(Len(@) + 1, a))],
             err |-> Nil]
      [] text = SQL("InsertRestaurant") ->
            [store |-> [s EXCEPT !.restaurants.rows =
                            Append(@, RestaurantRow(Len(@) + 1, a))],
             err |-> Nil]
      [] OTHER -> [store |-> s, err |-> "sql"]

\* the rows of the inner join of user and restaurants on user.id = user_id
RECURSIVE JoinRows(_, _, _, _)
JoinRows(us, rs, i, j) ==
    IF i > Len(us) THEN <<>>
    ELSE IF j > Len(rs) THEN JoinRows(us, rs, i + 1, 1)
    ELSE IF rs[j].user_id = us[i].id
         THEN <<[user |-> us[i], restaurant |-> rs[j]]>> \o JoinRows(us, rs, i, j + 1)
         ELSE JoinRows(us, rs, i, j + 1)

\* db.Query(query): the result set, or an error
Query(s, text) ==
    CASE text = SQL("SelectUsers") ->
            IF s.user.exists THEN [rows |-> s.user.rows, err |-> Nil]
            ELSE [rows |-> <<>>, err |-> "sql"]
      [] text = SQL("SelectRestaurants") ->
            IF s.restaurants.exists THEN [rows |-> s.restaurants.rows, err |-> Nil]
            ELSE [rows |-> <<>>, err |-> "sql"]
      [] text = SQL("SelectJoin") ->
            IF s.user.exists /\ s.restaurants.exists
            THEN [rows |-> JoinRows(s.user.rows, s.restaurants.rows, 1, 1), err |-> Nil]
            ELSE [rows |-> <<>>, err |-> "sql"]
      [] OTHER -> [rows |-> <<>>, err |-> "sql"]

----------------------------------------------------------------------------
\* The package's functions

\* the catalog file: missing, not YAML, or a mapping that holds some of the keys
CatalogFile(exists, wellFormed, entries) ==
    [exists |-> exists, wellFormed |-> wellFormed, entries |-> entries]

\* LoadQueries without the check of ReadFile's error
LoadQueriesNoReadCheck(f) ==
    IF ~f.exists THEN [queries |-> ZeroQueries, err |-> Nil]
    ELSE IF ~f.wellFormed THEN [queries |-> ZeroQueries, err |-> "yaml"]
    ELSE [queries |-> [k \in Keys |->
                          IF f.entries[k] = NoKey THEN "" ELSE f.entries[k]],
          err |-> Nil]

\* LoadQueries rejecting a file that lacks a key
LoadQueriesStrict(f) ==
    IF ~f.exists THEN [queries |-> ZeroQueries, err |-> "read"]
    ELSE IF ~f.wellFormed \/ \E k \in Keys : f.entries[k] = NoKey
    THEN [queries |-> ZeroQueries, err |-> "yaml"]
    ELSE [queries |-> f.entries, err |-> Nil]

LoadQueries(f) ==
    IF ~f.exists THEN [queries |-> ZeroQueries, err |-> "read"]
    ELSE IF ~f.wellFormed THEN [queries |-> ZeroQueries, err |-> "yaml"]
    ELSE [queries |-> [k \in Keys |->
                          IF f.entries[k] = NoKey THEN "" ELSE f.entries[k]],
          err |-> Nil]

NewDatabase(ok) == IF ok THEN Nil ELSE "open"

\* the loop of Initialize without the return on an error
RECURSIVE InitLoopNoAbort(_, _, _, _)
InitLoopNoAbort(s, statements, i, log) ==
    IF i > Len(statements) THEN [store |-> s, err |-> Nil, log |-> log]
    ELSE InitLoopNoAbort(ExecDDL(s, statements[i]).store, statements, i + 1,
                         Append(log, statements[i]))

RECURSIVE InitLoop(_, _, _, _)
InitLoop(s, statements, i, log) ==
    IF i > Len(statements) THEN [store |-> s, err |-> Nil, log |-> log]
    ELSE LET r == ExecDDL(s, statements[i]) IN
         IF r.err # Nil
         THEN [store |-> r.store, err |-> r.err, log |-> Append(log, statements[i])]
         ELSE InitLoop(r.store, statements, i + 1, Append(log, statements[i]))

\* Initialize without the two drops
InitializeNoDrop(s, q) ==
    InitLoop(s, <<q.CreateUser, q.CreateRestaurants>>, 1, <<>>)

Initialize(s, q) ==
    InitLoop(s, <<q.DropUser, q.DropRestaurants, q.CreateUser, q.CreateRestaurants>>,
             1, <<>>)

InsertUser(s, user, query) ==
    IF Prepare(s, query) # Nil THEN [store |-> s, err |-> Prepare(s, query)]
    ELSE ExecInsert(s, query, <<user.Name, user.Lastname, user.Password,
                                user.Email, user.Phone>>)

InsertRestaurant(s, restaurant, query) ==
    IF Prepare(s, query) # Nil THEN [store |-> s, err |-> Prepare(s, query)]
    ELSE ExecInsert(s, query, <<restaurant.Name, restaurant.Type, restaurant.Keys,
                                restaurant.AveragePrice, restaurant.UserID>>)

\* rows.Scan into the fields of a User
ScanUser(row) ==
    User(row.id, row.name, row.lastname, row.password, row.email, row.phone)

\* Scan with &restaurant.UserID as a sixth destination
ScanRestaurantWithUserID(row) ==
    Restaurant(row.id, row.name, row.type, row.keys, row.average_price, row.user_id)

\* rows.Scan into the fields of a Restaurant: UserID is no destination
ScanRestaurant(row) ==
    Restaurant(row.id, row.name, row.type, row.keys, row.average_price, 0)

\* rows.Scan into the fields of the join's anonymous struct
ScanJoin(row) ==
    [UserID |-> row.user.id, UserName |-> row.user.name,
     UserLastname |-> row.user.lastname, RestaurantID |-> row.restaurant.id,
     RestaurantName |-> row.restaurant.name, Type |-> row.restaurant.type,
     AveragePrice |-> row.restaurant.average_price]

\* the loop returning the rows appended so far when Scan fails
RECURSIVE RowsLoopKeepsPartial(_, _, _, _, _)
RowsLoopKeepsPartial(recs, i, acc, scanErrAt, cursorErrAt) ==
    IF i > Len(recs) \/ cursorErrAt = i
    THEN [ret |-> acc, err |-> Nil, scanned |-> i - 1]
    ELSE IF scanErrAt = i
    THEN [ret |-> acc, err |-> "scan", scanned |-> i]
    ELSE RowsLoopKeepsPartial(recs, i + 1, Append(acc, recs[i]), scanErrAt, cursorErrAt)

\* for rows.Next() { Scan; append }; return: i is the row rows.Next() is asked for.
\* scanErrAt = k: Scan fails on row k.  cursorErrAt = k: the cursor fails when asked
\* for row k, so rows.Next() is false there, as it is at the end of the rows.
RECURSIVE RowsLoop(_, _, _, _, _)
RowsLoop(recs, i, acc, scanErrAt, cursorErrAt) ==
    IF i > Len(recs) \/ cursorErrAt = i
    THEN [ret |-> acc, err |-> Nil, scanned |-> i - 1]
    ELSE IF scanErrAt = i
    THEN [ret |-> <<>>, err |-> "scan", scanned |-> i]
    ELSE RowsLoop(recs, i + 1, Append(acc, recs[i]), scanErrAt, cursorErrAt)

\* what a select returns, with what became of its cursor
Selected(r, opened, closed) ==
    [ret |-> r.ret, err |-> r.err, scanned |-> r.scanned,
     opened |-> opened, closed |-> closed]

QueryFailed(e) == Selected([ret |-> <<>>, err |-> e, scanned |-> 0], FALSE, FALSE)

\* SelectUsers closing the rows after the loop instead of deferring the Close
SelectUsersNoDefer(s, query, scanErrAt, cursorErrAt) ==
    LET q == Query(s, query)
        r == RowsLoop([i \in DOMAIN q.rows |-> ScanUser(q.rows[i])],
                      1, <<>>, scanErrAt, cursorErrAt)
    IN IF q.err # Nil THEN QueryFailed(q.err)
       ELSE Selected(r, TRUE, r.err = Nil)

SelectUsers(s, query, scanErrAt, cursorErrAt) ==
    LET q == Query(s, query) IN
    IF q.err # Nil THEN QueryFailed(q.err)
    ELSE Selected(RowsLoop([i \in DOMAIN q.rows |-> ScanUser(q.rows[i])],
                           1, <<>>, scanErrAt, cursorErrAt),
                  TRUE, TRUE)

SelectRestaurants(s, query, scanErrAt, cursorErrAt) ==
    LET q == Query(s, query) IN
    IF q.err # Nil THEN QueryFailed(q.err)
    ELSE Selected(RowsLoop([i \in DOMAIN q.rows |-> ScanRestaurant(q.rows[i])],
                           1, <<>>, scanErrAt, cursorErrAt),
                  TRUE, TRUE)

SelectJoin(s, query, scanErrAt, cursorErrAt) ==
    LET q == Query(s, query) IN
    IF q.err # Nil THEN QueryFailed(q.err)
    ELSE Selected(RowsLoop([i \in DOMAIN q.rows |-> ScanJoin(q.rows[i])],
                           1, <<>>, scanErrAt, cursorErrAt),
                  TRUE, TRUE)

----------------------------------------------------------------------------
\* State

FullEntries == [k \in Keys |-> SQL(k)]

\* the catalog files: the complete one, and each one with a single key missing
\* or malformed; and no file, and a file that is not YAML
GoodFiles ==
    {CatalogFile(TRUE, TRUE, FullEntries)} \cup
    {CatalogFile(TRUE, TRUE, [FullEntries EXCEPT ![k] = d]) :
        k \in Keys, d \in {NoKey, Malformed}}

Files ==
    GoodFiles \cup {CatalogFile(FALSE, FALSE, FullEntries),
                    CatalogFile(TRUE, FALSE, FullEntries)}

\* ./project.db before the first call: new, or left by an earlier run of main
NewStore == [user |-> NoTable, restaurants |-> NoTable]
UsedStore ==
    [user |-> Table(TRUE, <<UserRow(1, <<"lorem", "lorem", "lorem",
                                         "lorem@example.com", "+88888888888">>)>>),
     restaurants |-> Table(TRUE, <<RestaurantRow(1, <<"ipsum", "ipsum", "ipsum", 2, 1>>)>>)]
InitStores == {NewStore, UsedStore}

NoVal == [none |-> TRUE]
Arg(val, scanErrAt, cursorErrAt) ==
    [val |-> val, scanErrAt |-> scanErrAt, cursorErrAt |-> cursorErrAt]
NoArg == Arg(NoVal, 0, 0)

Selects == {"SelectUsers", "SelectRestaurants", "SelectJoin"}

\* what the driver does during a select: nothing, or one failure, of Scan on row
\* k or of the cursor when asked for row k
Faults ==
    {<<0, 0>>} \cup {<<k, 0>> : k \in 1..MaxRows} \cup {<<0, k>> : k \in 1..MaxRows}

\* a call of Initialize or of an insert returned r
Executed(name, a, r, log) ==
    /\ store' = r.store
    /\ op' = name
    /\ arg' = a
    /\ ret' = <<>>
    /\ err' = r.err
    /\ scanned' = 0
    /\ execLog' = log
    /\ prev' = (op = "Initialize" /\ err = Nil)
    /\ UNCHANGED <<file, queries, openCursors>>

\* a call of a select returned r
Returned(name, a, r, text) ==
    /\ op' = name
    /\ arg' = a
    /\ ret' = r.ret
    /\ err' = r.err
    /\ scanned' = r.scanned
    /\ execLog' = <<text>>
    /\ openCursors' = openCursors + (IF r.opened /\ ~r.closed THEN 1 ELSE 0)
    /\ prev' = (op = "Initialize" /\ err = Nil)
    /\ UNCHANGED <<store, file, queries>>

----------------------------------------------------------------------------
\* The package used directly: any sequence of calls with the loaded catalog

Init ==
    /\ store \in InitStores
    /\ file \in Files
    /\ queries = LoadQueries(file).queries
    /\ op = "LoadQueries"
    /\ arg = NoArg
    /\ ret = <<>>
    /\ err = LoadQueries(file).err
    /\ scanned = 0
    /\ execLog = <<>>
    /\ openCursors = 0
    /\ prev = FALSE
    /\ pc = "lib"
    /\ steplog = <<>>
    /\ output = <<>>

CallInitialize ==
    /\ pc = "lib"
    /\ LET r == Initialize(store, queries) IN
       Executed("Initialize", NoArg, r, r.log)
    /\ UNCHANGED <<pc, steplog, output>>

CallInsertUser ==
    /\ pc = "lib"
    /\ Len(store.user.rows) < MaxRows
    /\ \E u \in Users :
          Executed("InsertUser", Arg(u, 0, 0),
                   InsertUser(store, u, queries.InsertUser), <<queries.InsertUser>>)
    /\ UNCHANGED <<pc, steplog, output>>

CallInsertRestaurant ==
    /\ pc = "lib"
    /\ Len(store.restaurants.rows) < MaxRows
    /\ \E r \in Restaurants :
          Executed("InsertRestaurant", Arg(r, 0, 0),
                   InsertRestaurant(store, r, queries.InsertRestaurant),
                   <<queries.InsertRestaurant>>)
    /\ UNCHANGED <<pc, steplog, output>>

CallSelectUsers ==
    /\ pc = "lib"
    /\ \E f \in Faults :
          Returned("SelectUsers", Arg(NoVal, f[1], f[2]),
                   SelectUsers(store, queries.SelectUsers, f[1], f[2]), queries.SelectUsers)
    /\ UNCHANGED <<pc, steplog, output>>

CallSelectRestaurants ==
    /\ pc = "lib"
    /\ \E f \in Faults :
          Returned("SelectRestaurants", Arg(NoVal, f[1], f[2]),
                   SelectRestaurants(store, queries.SelectRestaurants, f[1], f[2]),
                   queries.SelectRestaurants)
    /\ UNCHANGED <<pc, steplog, output>>

CallSelectJoin ==
    /\ pc = "lib"
    /\ \E f \in Faults :
          Returned("SelectJoin", Arg(NoVal, f[1], f[2]),
                   SelectJoin(store, queries.SelectJoin, f[1], f[2]), queries.SelectJoin)
    /\ UNCHANGED <<pc, steplog, output>>

Next ==
    \/ CallInitialize
    \/ CallInsertUser
    \/ CallInsertRestaurant
    \/ CallSelectUsers
    \/ CallSelectRestaurants
    \/ CallSelectJoin

Spec == Init /\ [][Next]_vars

----------------------------------------------------------------------------
\* The program: main

\* the eight steps of main, in order
Steps == <<"open", "load", "init", "insertUser", "insertRestaurant",
           "selectUsers", "selectRestaurants", "selectJoin">>

\* one entry of steplog
Step(name, e) == [step |-> name, err |-> e]

\* if err != nil { log.Fatalf(...) }: the process exits, or main goes on
Fatal(name, e, next) ==
    /\ steplog' = Append(steplog, Step(name, e))
    /\ pc' = IF e # Nil THEN "exit1" ELSE next
    /\ output' = output

\* x, _ := Select...(); for ... { fmt.Printf }: the error is dropped, one line
\* is printed for each record returned
Printed(name, r, lines, next) ==
    /\ steplog' = Append(steplog, Step(name, r.err))
    /\ pc' = next
    /\ output' = output \o lines

MainInit ==
    /\ store \in InitStores
    /\ file \in Files
    /\ queries = ZeroQueries
    /\ op = "none"
    /\ arg = NoArg
    /\ ret = <<>>
    /\ err = Nil
    /\ scanned = 0
    /\ execLog = <<>>
    /\ openCursors = 0
    /\ prev = FALSE
    /\ pc = "open"
    /\ steplog = <<>>
    /\ output = <<>>

MainOpen ==
    /\ pc = "open"
    /\ \E ok \in BOOLEAN :
          /\ Fatal("open", NewDatabase(ok), "load")
          /\ Executed("NewDatabase", NoArg, [store |-> store, err |-> NewDatabase(ok)], <<>>)

MainLoad ==
    /\ pc = "load"
    /\ Fatal("load", LoadQueries(file).err, "init")
    /\ queries' = LoadQueries(file).queries
    /\ op' = "LoadQueries"
    /\ err' = LoadQueries(file).err
    /\ prev' = (op = "Initialize" /\ err = Nil)
    /\ arg' = NoArg /\ ret' = <<>> /\ scanned' = 0 /\ execLog' = <<>>
    /\ UNCHANGED <<store, file, openCursors>>

MainInitialize ==
    /\ pc = "init"
    /\ LET r == Initialize(store, queries) IN
          /\ Fatal("init", r.err, "insertUser")
          /\ Executed("Initialize", NoArg, r, r.log)

MainInsertUser ==
    /\ pc = "insertUser"
    /\ LET r == InsertUser(store, SampleUser, queries.InsertUser) IN
          /\ Fatal("insertUser", r.err, "insertRestaurant")
          /\ Executed("InsertUser", Arg(SampleUser, 0, 0), r, <<queries.InsertUser>>)

MainInsertRestaurant ==
    /\ pc = "insertRestaurant"
    /\ LET r == InsertRestaurant(store, SampleRestaurant, queries.InsertRestaurant) IN
          /\ Fatal("insertRestaurant", r.err, "selectUsers")
          /\ Executed("InsertRestaurant", Arg(SampleRestaurant, 0, 0), r,
                      <<queries.InsertRestaurant>>)

MainSelectUsers ==
    /\ pc = "selectUsers"
    /\ \E f \in Faults :
          LET r == SelectUsers(store, queries.SelectUsers, f[1], f[2]) IN
          /\ Printed("selectUsers", r,
                     [i \in DOMAIN r.ret |->
                        <<"User", r.ret[i].ID, r.ret[i].Name, r.ret[i].Lastname>>],
                     "selectRestaurants")
          /\ Returned("SelectUsers", Arg(NoVal, f[1], f[2]), r, queries.SelectUsers)

MainSelectRestaurants ==
    /\ pc = "selectRestaurants"
    /\ \E f \in Faults :
          LET r == SelectRestaurants(store, queries.SelectRestaurants, f[1], f[2]) IN
          /\ Printed("selectRestaurants", r,
                     [i \in DOMAIN r.ret |->
                        <<"Restaurant", r.ret[i].ID, r.ret[i].Name, r.ret[i].Type>>],
                     "selectJoin")
          /\ Returned("SelectRestaurants", Arg(NoVal, f[1], f[2]), r,
                      queries.SelectRestaurants)

MainSelectJoin ==
    /\ pc = "selectJoin"
    /\ \E f \in Faults :
          LET r == SelectJoin(store, queries.SelectJoin, f[1], f[2]) IN
          /\ Printed("selectJoin", r,
                     [i \in DOMAIN r.ret |->
                        <<"Join", r.ret[i].UserID, r.ret[i].UserName,
                          r.ret[i].UserLastname, r.ret[i].RestaurantID,
                          r.ret[i].RestaurantName, r.ret[i].Type,
                          r.ret[i].AveragePrice>>],
                     "done")
          /\ Returned("SelectJoin", Arg(NoVal, f[1], f[2]), r, queries.SelectJoin)

MainNext ==
    \/ MainOpen
    \/ MainLoad
    \/ MainInitialize
    \/ MainInsertUser
    \/ MainInsertRestaurant
    \/ MainSelectUsers
    \/ MainSelectRestaurants
    \/ MainSelectJoin

MainSpec == MainInit /\ [][MainNext]_vars

----------------------------------------------------------------------------
\* Properties

\* the statements of Initialize, in order
InitStatements(q) == <<q.DropUser, q.DropRestaurants, q.CreateUser, q.CreateRestaurants>>

\* the store after the first n of the statements were executed on s
RECURSIVE Applied(_, _, _)
Applied(s, statements, n) ==
    IF n = 0 THEN s
    ELSE ExecDDL(Applied(s, statements, n - 1), statements[n]).store

\* the rows the last select's query yields
ResultRows == Query(store, queries[op]).rows

\* both tables exist and are empty
FreshStore == [user |-> EmptyTable, restaurants |-> EmptyTable]

\* C1: in main, a step that fails is the last step executed, and the process
\* has exited.
C1_EveryErrorFatal ==
    \A i \in DOMAIN steplog :
        steplog[i].err # Nil => (i = Len(steplog) /\ pc = "exit1")

\* C2: Initialize hands the driver a prefix of drop-user, drop-restaurants,
\* create-user, create-restaurants in that order; it returns nil only after all
\* four; when a statement fails it returns that error, hands over nothing more,
\* and the store holds the effects of the statements before it.
C2_InitializePrefix ==
    [][op' = "Initialize" =>
        LET st == InitStatements(queries)
            n == Len(execLog')
        IN /\ n \in 1..4
           /\ execLog' = SubSeq(st, 1, n)
           /\ \A i \in 1..(n - 1) : ExecDDL(Applied(store, st, i - 1), st[i]).err = Nil
           /\ err' = ExecDDL(Applied(store, st, n - 1), st[n]).err
           /\ (err' = Nil => n = 4)
           /\ store' = Applied(store, st, n)
           /\ (err' # Nil => store' = Applied(store, st, n - 1))]_vars

C2_Witness ==
    /\ op = "Initialize" /\ err # Nil /\ Len(execLog) = 4
    /\ store.user.exists /\ ~store.restaurants.exists

\* C3: no cursor opened by a select that has returned is still open.
C3_CursorsReleased == openCursors = 0

C3_Witness ==
    /\ op \in Selects /\ err = "scan" /\ scanned = 2 /\ openCursors = 0

\* C4: when Scan fails on a row, the select has scanned no row after it and
\* returns the error with an empty result.
C4_ScanErrorDiscards ==
    (op \in Selects /\ arg.scanErrAt \in 1..Len(ResultRows)) =>
        (err # Nil /\ ret = <<>> /\ scanned = arg.scanErrAt)

C4_Witness ==
    /\ op \in Selects /\ arg.scanErrAt = 2 /\ Len(ResultRows) >= 2 /\ err = "scan"

\* C5: with the complete catalog, Initialize returns nil from every store and
\* leaves both tables existing and empty, the second time in a row as the first.
C5_InitializeIdempotent ==
    (op = "Initialize" /\ queries = FullEntries) => (err = Nil /\ store = FreshStore)

C5_Witness ==
    /\ prev /\ op = "Initialize" /\ queries = FullEntries
    /\ err = Nil /\ store = FreshStore

\* C6: a SelectUsers returning nil right after an InsertUser(u) returning nil
\* returns a record with u's name, lastname, email and phone and the id the
\* store assigned to the new row.
C6_InsertThenSelect ==
    [][(op = "InsertUser" /\ err = Nil /\ op' = "SelectUsers" /\ err' = Nil) =>
        \E i \in DOMAIN ret' :
            /\ ret'[i].Name = arg.val.Name
            /\ ret'[i].Lastname = arg.val.Lastname
            /\ ret'[i].Email = arg.val.Email
            /\ ret'[i].Phone = arg.val.Phone
            /\ ret'[i].ID = Len(store.user.rows)]_vars

\* C7: every record SelectRestaurants returns has UserID zero, whatever user id
\* the row holds, and the row's id, name, type, keys and average price.
C7_UserIDNeverScanned ==
    op = "SelectRestaurants" =>
        \A i \in DOMAIN ret :
            /\ ret[i].UserID = 0
            /\ ret[i].ID = store.restaurants.rows[i].id
            /\ ret[i].Name = store.restaurants.rows[i].name
            /\ ret[i].Type = store.restaurants.rows[i].type
            /\ ret[i].Keys = store.restaurants.rows[i].keys
            /\ ret[i].AveragePrice = store.restaurants.rows[i].average_price

C7_Witness ==
    /\ op = "SelectRestaurants" /\ Len(ret) = 2
    /\ store.restaurants.rows[1].user_id # 0
    /\ store.restaurants.rows[2].user_id # store.restaurants.rows[1].user_id

\* C8: when the catalog file is missing, LoadQueries returns an error, main
\* exits there, no statement is handed to the driver and the store stays as it was.
C8_MissingCatalogNoDatabaseOp ==
    [][~file.exists =>
        /\ store' = store
        /\ execLog' = <<>>
        /\ op' \in {"NewDatabase", "LoadQueries"}
        /\ (op' = "LoadQueries" => (err' # Nil /\ pc' = "exit1"))]_vars

C8_Witness ==
    /\ ~file.exists /\ op = "LoadQueries" /\ err # Nil /\ pc = "exit1"

\* the catalog entries an operation uses
Uses(name) ==
    IF name = "Initialize"
    THEN {"DropUser", "DropRestaurants", "CreateUser", "CreateRestaurants"}
    ELSE {name}

Calls == {"Initialize", "InsertUser", "InsertRestaurant"} \cup Selects

\* C9: a file lacking a key (or holding malformed text for it) loads without
\* error, the lacking entry being ""; an operation returns an error when an
\* entry it uses is the defective one, and otherwise does what it does with
\* the complete catalog.
C9_FailureAtPointOfUse ==
    [][(file \in GoodFiles /\ op' \in Calls) =>
        /\ LoadQueries(file).err = Nil
        /\ \A k \in Keys :
              queries[k] = IF file.entries[k] = NoKey THEN "" ELSE file.entries[k]
        /\ (\E k \in Uses(op') : queries[k] # SQL(k)) => err' # Nil
        /\ (\A k \in Uses(op') : queries[k] = SQL(k)) =>
              CASE op' = "Initialize" ->
                      /\ err' = Initialize(store, FullEntries).err
                      /\ store' = Initialize(store, FullEntries).store
                [] op' = "InsertUser" ->
                      /\ err' = InsertUser(store, arg'.val, SQL("InsertUser")).err
                      /\ store' = InsertUser(store, arg'.val, SQL("InsertUser")).store
                [] op' = "InsertRestaurant" ->
                      /\ err' = InsertRestaurant(store, arg'.val, SQL("InsertRestaurant")).err
                      /\ store' = InsertRestaurant(store, arg'.val, SQL("InsertRestaurant")).store
                [] op' = "SelectUsers" ->
                      LET r == SelectUsers(store, SQL("SelectUsers"),
                                           arg'.scanErrAt, arg'.cursorErrAt)
                      IN err' = r.err /\ ret' = r.ret
                [] op' = "SelectRestaurants" ->
                      LET r == SelectRestaurants(store, SQL("SelectRestaurants"),
                                                 arg'.scanErrAt, arg'.cursorErrAt)
                      IN err' = r.err /\ ret' = r.ret
                [] op' = "SelectJoin" ->
                      LET r == SelectJoin(store, SQL("SelectJoin"),
                                          arg'.scanErrAt, arg'.cursorErrAt)
                      IN err' = r.err /\ ret' = r.ret]_vars

C9_Witness ==
    /\ file \in GoodFiles /\ file.entries["InsertUser"] = NoKey
    /\ queries["InsertUser"] = ""
    /\ op = "InsertUser" /\ err # Nil
    /\ store = FreshStore

\* C10: a select that returns a nil error returns one record for every row of
\* its query's result.
C10_NilErrorMeansAllRows ==
    (op \in Selects /\ err = Nil) => Len(ret) = Len(ResultRows)

====
